---- MODULE Spec2Model ----
(***************************************************************************)
(* Model of the ImmuneSystemTwinFHE contract (src/frontend/web/src/App.tsx, *)
(* lines 878-1123): access control, cooldowns, the batch ledger, the        *)
(* homomorphic aggregation and the decryption request / callback protocol. *)
(* Every external call of the contract is one action; a call that reverts  *)
(* undoes all its effects; the error it reverts with and the events it     *)
(* emits are the values of the ...Error and ...Events operators.           *)
(***************************************************************************)
EXTENDS Integers, Sequences, FiniteSets, TLC

\* ---------------------------------------------------------------- bounds
\* Spec: two batches, one record per batch, one decryption request.
MaxBatches == 2
MaxRecords == 1
MaxRequests == 1
\* SpecRequests: one batch, two records, two decryption requests.
ReqBatches == 1
ReqRecords == 2
ReqRequests == 2
\* Record lists the two aggregation loops are compared on: up to this length.
MaxTamperLen == 2
\* block.timestamp runs over 1..MaxTime.
MaxTime == 2
\* Largest value of the (narrowed) unsigned integer type of the timestamps.
MaxUint == 3
\* Largest plaintext of the (narrowed) encrypted integer type euint32.
MaxEuint32 == 15

\* ---------------------------------------------------------------- inputs
Deployer == "a1"
Addr == {"a1", "a2"}
ZeroAddress == "0x0"
OwnerInputs == Addr
CooldownInputs == {0, 1, MaxUint}
\* Records offered to submitEncryptedData: a field 0 is an uninitialized handle.
RecordInputs == {<<1, 2, 3>>, <<0, 1, 1>>, <<1, 0, 1>>, <<1, 1, 0>>}
\* Well-formed records the lists in RecordLists are made of.
TamperRecords == {<<1, 2, 3>>, <<2, 1, 1>>, <<1, 2, 1>>}
BatchIds == 0..MaxBatches
BatchIdInputs == 0..(MaxBatches + 1)
\* Request ids 0..ReqRequests-1 can be issued; the last one never is.
RequestIdInputs == 0..ReqRequests
\* Cleartext payloads of three 32-byte words: the decryptions of the sums over
\* one and over two records <<1, 2, 3>>.
CleartextInputs == {<<2, 4, 6>>, <<4, 8, 12>>}
\* Proofs: a KMS signature over <<2, 4, 6>> for every request id that can be
\* issued, one over <<4, 8, 12>> for request 0, and a forged one.
ProofInputs == {<<"kms", r, <<2, 4, 6>>>> : r \in 0..(ReqRequests - 1)}
                   \cup {<<"kms", 0, <<4, 8, 12>>>>, <<"forger", 0, <<2, 4, 6>>>>}

VARIABLES
    owner, isProvider, paused, cooldownSeconds,
    lastSubmissionTime, lastDecryptionRequestTime,
    currentBatchId, batches, batchEncryptedData, decryptionContexts,
    requestCounter, now,
    acceptedSubmissions, completions, requestedRecords

storage == <<owner, isProvider, paused, cooldownSeconds,
             lastSubmissionTime, lastDecryptionRequestTime,
             currentBatchId, batches, batchEncryptedData, decryptionContexts>>
\* Observers of the run: the number of accepted submissions per batch, the
\* number of DecryptionCompleted events per request id, and the record list
\* that each issued request aggregated.
observers == <<acceptedSubmissions, completions, requestedRecords>>
vars == <<storage, requestCounter, now, observers>>

\* ---------------------------------------------------------------- FHE library
\* A ciphertext handle produced by the library is a deterministic function of
\* the operation and its operand handles; it is represented by the expression.
AsEuint32(v) == [zero |-> v, adds |-> <<>>]
FheAdd(total, h) == [total EXCEPT !.adds = Append(@, h)]
ToBytes32(h) == h
IsInitialized(h) == h # 0

\* The value a provider encrypted under input handle h (handle 0 is no
\* ciphertext), and the decryption the oracle returns for a handle produced by
\* asEuint32 and fheAdd: euint32 addition wraps beyond MaxEuint32.
PlaintextOf(h) == 2 * h
RECURSIVE SumPlaintexts(_)
SumPlaintexts(hs) ==
    IF hs = <<>> THEN 0 ELSE (PlaintextOf(Head(hs)) + SumPlaintexts(Tail(hs))) % (MaxEuint32 + 1)
Decrypt(e) == (e.zero + SumPlaintexts(e.adds)) % (MaxEuint32 + 1)

ThisContract == "ImmuneSystemTwinFHE"
ZeroHash == <<>>
\* Mutant: the hash also covers the time of the call.
HashCiphertextsWithTime(cts) == <<cts, ThisContract, now>>

\* keccak256(abi.encode(cts, address(this))), taken as collision free.
HashCiphertexts(cts) == <<cts, ThisContract>>

\* FHE.checkSignatures: the proof is the KMS signature over this request id
\* and these cleartexts.
CheckSignatures(requestId, cleartexts, proof) ==
    /\ proof[1] = "kms"
    /\ proof[2] = requestId
    /\ proof[3] = cleartexts

\* ---------------------------------------------------------------- aggregation
RECURSIVE SumField(_, _, _, _)
\* The loop of requestBatchAnalysis for one field, from index i.
SumField(data, f, i, total) ==
    IF i > Len(data) THEN total
    ELSE SumField(data, f, i + 1, FheAdd(total, data[i][f]))

AggregateCts(data) ==
    <<ToBytes32(SumField(data, 1, 1, AsEuint32(0))),
      ToBytes32(SumField(data, 2, 1, AsEuint32(0))),
      ToBytes32(SumField(data, 3, 1, AsEuint32(0)))>>

StateHashOf(data) == HashCiphertexts(AggregateCts(data))

RECURSIVE CurrentSumField(_, _, _, _)
\* The loop of myCallback for one field, from index i.
CurrentSumField(data, f, i, total) ==
    IF i > Len(data) THEN total
    ELSE CurrentSumField(data, f, i + 1, FheAdd(total, data[i][f]))

\* Mutant: the callback rebuilds the second and third ciphertext from each
\* other's field.
CurrentCtsSwapped(data) ==
    <<ToBytes32(CurrentSumField(data, 1, 1, AsEuint32(0))),
      ToBytes32(CurrentSumField(data, 3, 1, AsEuint32(0))),
      ToBytes32(CurrentSumField(data, 2, 1, AsEuint32(0)))>>

CurrentCts(data) ==
    <<ToBytes32(CurrentSumField(data, 1, 1, AsEuint32(0))),
      ToBytes32(CurrentSumField(data, 2, 1, AsEuint32(0))),
      ToBytes32(CurrentSumField(data, 3, 1, AsEuint32(0)))>>

\* Mutant: the hash of an empty record list is taken to be the zero hash.
CurrentStateHashOfEmptyIsZero(data) ==
    IF data = <<>> THEN ZeroHash ELSE HashCiphertexts(CurrentCts(data))

CurrentStateHashOf(data) == HashCiphertexts(CurrentCts(data))

\* ---------------------------------------------------------------- types
Batch(id, n, c) == [id |-> id, totalEncryptedDataPoints |-> n, closed |-> c]
DecryptionContext(b, h, p) == [batchId |-> b, stateHash |-> h, processed |-> p]

Event(name, a, b, c) == <<name, a, b, c>>

Init ==
    /\ owner = Deployer
    /\ isProvider = [a \in Addr |-> FALSE]
    /\ paused = FALSE
    /\ cooldownSeconds = 0
    /\ lastSubmissionTime = [a \in Addr |-> 0]
    /\ lastDecryptionRequestTime = [a \in Addr |-> 0]
    /\ currentBatchId = 0
    /\ batches = [b \in BatchIds |-> Batch(0, 0, FALSE)]
    /\ batchEncryptedData = [b \in BatchIds |-> <<>>]
    /\ decryptionContexts = [r \in RequestIdInputs |-> DecryptionContext(0, ZeroHash, FALSE)]
    /\ requestCounter = 0
    /\ now = 1
    /\ acceptedSubmissions = [b \in BatchIds |-> 0]
    /\ completions = [r \in RequestIdInputs |-> 0]
    /\ requestedRecords = [r \in RequestIdInputs |-> <<>>]

\* A reverted call: every effect of the call is undone.
Revert == UNCHANGED vars

\* ---------------------------------------------------------------- modifiers
\* Mutant: the deployer keeps the owner's rights after a transfer.
OnlyOwnerOrDeployer(sender) == sender = owner \/ sender = Deployer

OnlyOwner(sender) == sender = owner
OnlyProvider(sender) == isProvider[sender]
WhenNotPaused == ~paused
\* The checked addition of the cooldown modifiers overflows above MaxUint.
CooldownOverflows(last) == last + cooldownSeconds > MaxUint
CooldownActive(last) == now < last + cooldownSeconds

\* ---------------------------------------------------------------- access control
transferOwnershipError(sender, newOwner) ==
    IF ~OnlyOwner(sender) THEN "NotOwner" ELSE "ok"

transferOwnershipEvents(sender, newOwner) ==
    IF transferOwnershipError(sender, newOwner) # "ok" THEN <<>>
    ELSE <<Event("OwnershipTransferred", owner, newOwner, 0)>>

transferOwnership(sender, newOwner) ==
    IF transferOwnershipError(sender, newOwner) # "ok" THEN Revert
    ELSE /\ owner' = newOwner
         /\ UNCHANGED <<isProvider, paused, cooldownSeconds, lastSubmissionTime,
                        lastDecryptionRequestTime, currentBatchId, batches,
                        batchEncryptedData, decryptionContexts, requestCounter,
                        now, observers>>

addProviderError(sender, provider) ==
    IF ~OnlyOwner(sender) THEN "NotOwner" ELSE "ok"

\* Mutant: ProviderAdded is emitted whether or not the provider is new.
addProviderEventsAlways(sender, provider) ==
    IF addProviderError(sender, provider) # "ok" THEN <<>>
    ELSE <<Event("ProviderAdded", provider, 0, 0)>>

addProviderEvents(sender, provider) ==
    IF addProviderError(sender, provider) # "ok" THEN <<>>
    ELSE IF ~isProvider[provider] THEN <<Event("ProviderAdded", provider, 0, 0)>>
    ELSE <<>>

addProvider(sender, provider) ==
    IF addProviderError(sender, provider) # "ok" THEN Revert
    ELSE /\ isProvider' = IF ~isProvider[provider]
                          THEN [isProvider EXCEPT ![provider] = TRUE]
                          ELSE isProvider
         /\ UNCHANGED <<owner, paused, cooldownSeconds, lastSubmissionTime,
                        lastDecryptionRequestTime, currentBatchId, batches,
                        batchEncryptedData, decryptionContexts, requestCounter,
                        now, observers>>

removeProviderError(sender, provider) ==
    IF ~OnlyOwner(sender) THEN "NotOwner" ELSE "ok"

removeProviderEvents(sender, provider) ==
    IF removeProviderError(sender, provider) # "ok" THEN <<>>
    ELSE IF isProvider[provider] THEN <<Event("ProviderRemoved", provider, 0, 0)>>
    ELSE <<>>

removeProvider(sender, provider) ==
    IF removeProviderError(sender, provider) # "ok" THEN Revert
    ELSE /\ isProvider' = IF isProvider[provider]
                          THEN [isProvider EXCEPT ![provider] = FALSE]
                          ELSE isProvider
         /\ UNCHANGED <<owner, paused, cooldownSeconds, lastSubmissionTime,
                        lastDecryptionRequestTime, currentBatchId, batches,
                        batchEncryptedData, decryptionContexts, requestCounter,
                        now, observers>>

\* Mutant: setPaused is itself gated by the pause flag.
setPausedErrorPauseGated(sender, p) ==
    IF ~OnlyOwner(sender) THEN "NotOwner"
    ELSE IF ~WhenNotPaused THEN "Paused"
    ELSE "ok"

setPausedError(sender, p) ==
    IF ~OnlyOwner(sender) THEN "NotOwner" ELSE "ok"

\* Mutant: the notification is emitted whether or not the flag changes.
setPausedEventsAlways(sender, p) ==
    IF setPausedError(sender, p) # "ok" THEN <<>>
    ELSE IF p THEN <<Event("ContractPaused", sender, 0, 0)>>
    ELSE <<Event("ContractUnpaused", sender, 0, 0)>>

setPausedEvents(sender, p) ==
    IF setPausedError(sender, p) # "ok" THEN <<>>
    ELSE IF p # paused
         THEN (IF p THEN <<Event("ContractPaused", sender, 0, 0)>>
                    ELSE <<Event("ContractUnpaused", sender, 0, 0)>>)
    ELSE <<>>

setPaused(sender, p) ==
    IF setPausedError(sender, p) # "ok" THEN Revert
    ELSE /\ paused' = IF p # paused THEN p ELSE paused
         /\ UNCHANGED <<owner, isProvider, cooldownSeconds, lastSubmissionTime,
                        lastDecryptionRequestTime, currentBatchId, batches,
                        batchEncryptedData, decryptionContexts, requestCounter,
                        now, observers>>

setCooldownSecondsError(sender, newCooldownSeconds) ==
    IF ~OnlyOwner(sender) THEN "NotOwner" ELSE "ok"

setCooldownSecondsEvents(sender, newCooldownSeconds) ==
    IF setCooldownSecondsError(sender, newCooldownSeconds) # "ok" THEN <<>>
    ELSE <<Event("CooldownSecondsSet", cooldownSeconds, newCooldownSeconds, 0)>>

setCooldownSeconds(sender, newCooldownSeconds) ==
    IF setCooldownSecondsError(sender, newCooldownSeconds) # "ok" THEN Revert
    ELSE /\ cooldownSeconds' = newCooldownSeconds
         /\ UNCHANGED <<owner, isProvider, paused, lastSubmissionTime,
                        lastDecryptionRequestTime, currentBatchId, batches,
                        batchEncryptedData, decryptionContexts, requestCounter,
                        now, observers>>

\* ---------------------------------------------------------------- batch ledger
\* Mutant: the pause gate is evaluated before the owner gate.
openBatchErrorPauseFirst(sender) ==
    IF ~WhenNotPaused THEN "Paused"
    ELSE IF ~OnlyOwner(sender) THEN "NotOwner"
    ELSE "ok"

openBatchError(sender) ==
    IF ~OnlyOwner(sender) THEN "NotOwner"
    ELSE IF ~WhenNotPaused THEN "Paused"
    ELSE "ok"

openBatchEvents(sender) ==
    IF openBatchError(sender) # "ok" THEN <<>>
    ELSE <<Event("BatchOpened", currentBatchId + 1, 0, 0)>>

\* Mutant: the new batch is written before the counter is incremented.
openBatchWritesBeforeIncrement(sender) ==
    IF openBatchError(sender) # "ok" THEN Revert
    ELSE /\ currentBatchId' = currentBatchId + 1
         /\ batches' = [batches EXCEPT ![currentBatchId] =
                            Batch(currentBatchId + 1, 0, FALSE)]
         /\ UNCHANGED <<owner, isProvider, paused, cooldownSeconds, lastSubmissionTime,
                        lastDecryptionRequestTime, batchEncryptedData,
                        decryptionContexts, requestCounter, now, observers>>

\* Mutant: the new batch is created already closed.
openBatchCreatesClosed(sender) ==
    IF openBatchError(sender) # "ok" THEN Revert
    ELSE /\ currentBatchId' = currentBatchId + 1
         /\ batches' = [batches EXCEPT ![currentBatchId + 1] =
                            Batch(currentBatchId + 1, 0, TRUE)]
         /\ UNCHANGED <<owner, isProvider, paused, cooldownSeconds, lastSubmissionTime,
                        lastDecryptionRequestTime, batchEncryptedData,
                        decryptionContexts, requestCounter, now, observers>>

\* Mutant: the new batch starts with the record count of the previous one.
openBatchKeepsCount(sender) ==
    IF openBatchError(sender) # "ok" THEN Revert
    ELSE /\ currentBatchId' = currentBatchId + 1
         /\ batches' = [batches EXCEPT ![currentBatchId + 1] =
                            Batch(currentBatchId + 1,
                                  batches[currentBatchId].totalEncryptedDataPoints, FALSE)]
         /\ UNCHANGED <<owner, isProvider, paused, cooldownSeconds, lastSubmissionTime,
                        lastDecryptionRequestTime, batchEncryptedData,
                        decryptionContexts, requestCounter, now, observers>>

openBatch(sender) ==
    IF openBatchError(sender) # "ok" THEN Revert
    ELSE /\ currentBatchId' = currentBatchId + 1
         /\ batches' = [batches EXCEPT ![currentBatchId + 1] =
                            Batch(currentBatchId + 1, 0, FALSE)]
         /\ UNCHANGED <<owner, isProvider, paused, cooldownSeconds, lastSubmissionTime,
                        lastDecryptionRequestTime, batchEncryptedData,
                        decryptionContexts, requestCounter, now, observers>>

\* Mutant: closeBatch is not gated by the pause flag.
closeBatchErrorNoPauseCheck(sender, batchId) ==
    IF ~OnlyOwner(sender) THEN "NotOwner"
    ELSE IF batchId = 0 \/ batchId > currentBatchId \/ batches[batchId].closed
         THEN "InvalidBatchId"
    ELSE "ok"

\* Mutant: a batch that is already closed can be closed again.
closeBatchErrorNoClosedCheck(sender, batchId) ==
    IF ~OnlyOwner(sender) THEN "NotOwner"
    ELSE IF ~WhenNotPaused THEN "Paused"
    ELSE IF batchId = 0 \/ batchId > currentBatchId THEN "InvalidBatchId"
    ELSE "ok"

\* Mutant: only the current batch can be closed.
closeBatchErrorOnlyCurrent(sender, batchId) ==
    IF ~OnlyOwner(sender) THEN "NotOwner"
    ELSE IF ~WhenNotPaused THEN "Paused"
    ELSE IF batchId = 0 \/ batchId # currentBatchId \/ batches[batchId].closed
         THEN "InvalidBatchId"
    ELSE "ok"

closeBatchError(sender, batchId) ==
    IF ~OnlyOwner(sender) THEN "NotOwner"
    ELSE IF ~WhenNotPaused THEN "Paused"
    ELSE IF batchId = 0 \/ batchId > currentBatchId \/ batches[batchId].closed
         THEN "InvalidBatchId"
    ELSE "ok"

closeBatchEvents(sender, batchId) ==
    IF closeBatchError(sender, batchId) # "ok" THEN <<>>
    ELSE <<Event("BatchClosed", batchId, batches[batchId].totalEncryptedDataPoints, 0)>>

closeBatch(sender, batchId) ==
    IF closeBatchError(sender, batchId) # "ok" THEN Revert
    ELSE /\ batches' = [batches EXCEPT ![batchId].closed = TRUE]
         /\ UNCHANGED <<owner, isProvider, paused, cooldownSeconds, lastSubmissionTime,
                        lastDecryptionRequestTime, currentBatchId, batchEncryptedData,
                        decryptionContexts, requestCounter, now, observers>>

\* Mutant: a closed current batch is not rejected.
submitEncryptedDataErrorNoClosedCheck(sender, rec) ==
    IF ~OnlyProvider(sender) THEN "NotProvider"
    ELSE IF ~WhenNotPaused THEN "Paused"
    ELSE IF CooldownOverflows(lastSubmissionTime[sender]) THEN "Panic"
    ELSE IF CooldownActive(lastSubmissionTime[sender]) THEN "CooldownActive"
    ELSE IF ~IsInitialized(rec[1]) \/ ~IsInitialized(rec[2]) \/ ~IsInitialized(rec[3])
         THEN "NotInitialized"
    ELSE "ok"

\* Mutant: the owner may submit without being a provider.
submitEncryptedDataErrorOwnerBypass(sender, rec) ==
    IF ~OnlyProvider(sender) /\ ~OnlyOwner(sender) THEN "NotProvider"
    ELSE IF ~WhenNotPaused THEN "Paused"
    ELSE IF CooldownOverflows(lastSubmissionTime[sender]) THEN "Panic"
    ELSE IF CooldownActive(lastSubmissionTime[sender]) THEN "CooldownActive"
    ELSE IF ~IsInitialized(rec[1]) \/ ~IsInitialized(rec[2]) \/ ~IsInitialized(rec[3])
         THEN "NotInitialized"
    ELSE IF batches[currentBatchId].closed THEN "BatchClosedOrInvalid"
    ELSE "ok"

\* Mutant: the submission cooldown reads the decryption request clock.
submitEncryptedDataErrorWrongClock(sender, rec) ==
    IF ~OnlyProvider(sender) THEN "NotProvider"
    ELSE IF ~WhenNotPaused THEN "Paused"
    ELSE IF CooldownOverflows(lastDecryptionRequestTime[sender]) THEN "Panic"
    ELSE IF CooldownActive(lastDecryptionRequestTime[sender]) THEN "CooldownActive"
    ELSE IF ~IsInitialized(rec[1]) \/ ~IsInitialized(rec[2]) \/ ~IsInitialized(rec[3])
         THEN "NotInitialized"
    ELSE IF batches[currentBatchId].closed THEN "BatchClosedOrInvalid"
    ELSE "ok"

submitEncryptedDataError(sender, rec) ==
    IF ~OnlyProvider(sender) THEN "NotProvider"
    ELSE IF ~WhenNotPaused THEN "Paused"
    ELSE IF CooldownOverflows(lastSubmissionTime[sender]) THEN "Panic"
    ELSE IF CooldownActive(lastSubmissionTime[sender]) THEN "CooldownActive"
    ELSE IF ~IsInitialized(rec[1]) \/ ~IsInitialized(rec[2]) \/ ~IsInitialized(rec[3])
         THEN "NotInitialized"
    ELSE IF batches[currentBatchId].closed THEN "BatchClosedOrInvalid"
    ELSE "ok"

submitEncryptedDataEvents(sender, rec) ==
    IF submitEncryptedDataError(sender, rec) # "ok" THEN <<>>
    ELSE <<Event("DataSubmitted", sender, currentBatchId, 1)>>

\* Mutant: the record is appended but the batch's counter is not incremented.
submitEncryptedDataNoCount(sender, rec) ==
    IF submitEncryptedDataError(sender, rec) # "ok" THEN Revert
    ELSE /\ batchEncryptedData' =
                [batchEncryptedData EXCEPT ![currentBatchId] = Append(@, rec)]
         /\ lastSubmissionTime' = [lastSubmissionTime EXCEPT ![sender] = now]
         /\ acceptedSubmissions' = [acceptedSubmissions EXCEPT ![currentBatchId] = @ + 1]
         /\ UNCHANGED <<owner, isProvider, paused, cooldownSeconds,
                        lastDecryptionRequestTime, currentBatchId, batches,
                        decryptionContexts, requestCounter, now,
                        completions, requestedRecords>>

\* Mutant: the caller's submission time is not recorded.
submitEncryptedDataNoTimestamp(sender, rec) ==
    IF submitEncryptedDataError(sender, rec) # "ok" THEN Revert
    ELSE /\ batchEncryptedData' =
                [batchEncryptedData EXCEPT ![currentBatchId] = Append(@, rec)]
         /\ batches' = [batches EXCEPT ![currentBatchId].totalEncryptedDataPoints = @ + 1]
         /\ acceptedSubmissions' = [acceptedSubmissions EXCEPT ![currentBatchId] = @ + 1]
         /\ UNCHANGED <<owner, isProvider, paused, cooldownSeconds, lastSubmissionTime,
                        lastDecryptionRequestTime, currentBatchId,
                        decryptionContexts, requestCounter, now,
                        completions, requestedRecords>>

\* Mutant: a submission rejected because the current batch is closed still
\* records the caller's submission time.
submitEncryptedDataStampsOnFailure(sender, rec) ==
    IF submitEncryptedDataError(sender, rec) = "BatchClosedOrInvalid"
    THEN /\ lastSubmissionTime' = [lastSubmissionTime EXCEPT ![sender] = now]
         /\ UNCHANGED <<owner, isProvider, paused, cooldownSeconds,
                        lastDecryptionRequestTime, currentBatchId, batches,
                        batchEncryptedData, decryptionContexts, requestCounter, now,
                        observers>>
    ELSE IF submitEncryptedDataError(sender, rec) # "ok" THEN Revert
    ELSE /\ batchEncryptedData' =
                [batchEncryptedData EXCEPT ![currentBatchId] = Append(@, rec)]
         /\ batches' = [batches EXCEPT ![currentBatchId].totalEncryptedDataPoints = @ + 1]
         /\ lastSubmissionTime' = [lastSubmissionTime EXCEPT ![sender] = now]
         /\ acceptedSubmissions' = [acceptedSubmissions EXCEPT ![currentBatchId] = @ + 1]
         /\ UNCHANGED <<owner, isProvider, paused, cooldownSeconds,
                        lastDecryptionRequestTime, currentBatchId,
                        decryptionContexts, requestCounter, now,
                        completions, requestedRecords>>

submitEncryptedData(sender, rec) ==
    IF submitEncryptedDataError(sender, rec) # "ok" THEN Revert
    ELSE /\ batchEncryptedData' =
                [batchEncryptedData EXCEPT ![currentBatchId] = Append(@, rec)]
         /\ batches' = [batches EXCEPT ![currentBatchId].totalEncryptedDataPoints = @ + 1]
         /\ lastSubmissionTime' = [lastSubmissionTime EXCEPT ![sender] = now]
         /\ acceptedSubmissions' = [acceptedSubmissions EXCEPT ![currentBatchId] = @ + 1]
         /\ UNCHANGED <<owner, isProvider, paused, cooldownSeconds,
                        lastDecryptionRequestTime, currentBatchId,
                        decryptionContexts, requestCounter, now,
                        completions, requestedRecords>>

\* ---------------------------------------------------------------- decryption
\* Mutant: a batch without records is not rejected.
requestBatchAnalysisErrorNoEmptyCheck(sender, batchId) ==
    IF ~OnlyOwner(sender) THEN "NotOwner"
    ELSE IF ~WhenNotPaused THEN "Paused"
    ELSE IF CooldownOverflows(lastDecryptionRequestTime[sender]) THEN "Panic"
    ELSE IF CooldownActive(lastDecryptionRequestTime[sender]) THEN "CooldownActive"
    ELSE IF batchId = 0 \/ batchId > currentBatchId \/ ~batches[batchId].closed
         THEN "InvalidBatchId"
    ELSE "ok"

\* Mutant: a batch that is still open is not rejected.
requestBatchAnalysisErrorNoClosedCheck(sender, batchId) ==
    IF ~OnlyOwner(sender) THEN "NotOwner"
    ELSE IF ~WhenNotPaused THEN "Paused"
    ELSE IF CooldownOverflows(lastDecryptionRequestTime[sender]) THEN "Panic"
    ELSE IF CooldownActive(lastDecryptionRequestTime[sender]) THEN "CooldownActive"
    ELSE IF batchId = 0 \/ batchId > currentBatchId THEN "InvalidBatchId"
    ELSE IF batches[batchId].totalEncryptedDataPoints = 0 THEN "InvalidBatchId"
    ELSE "ok"

requestBatchAnalysisError(sender, batchId) ==
    IF ~OnlyOwner(sender) THEN "NotOwner"
    ELSE IF ~WhenNotPaused THEN "Paused"
    ELSE IF CooldownOverflows(lastDecryptionRequestTime[sender]) THEN "Panic"
    ELSE IF CooldownActive(lastDecryptionRequestTime[sender]) THEN "CooldownActive"
    ELSE IF batchId = 0 \/ batchId > currentBatchId \/ ~batches[batchId].closed
         THEN "InvalidBatchId"
    ELSE IF batches[batchId].totalEncryptedDataPoints = 0 THEN "InvalidBatchId"
    ELSE "ok"

\* Mutant: the oracle hands out the same request id again.
RequestDecryptionReused(cts) == 0

\* FHE.requestDecryption: the oracle numbers the requests consecutively.
RequestDecryption(cts) == requestCounter

requestBatchAnalysisEvents(sender, batchId) ==
    IF requestBatchAnalysisError(sender, batchId) # "ok" THEN <<>>
    ELSE <<Event("DecryptionRequested",
                 RequestDecryption(AggregateCts(batchEncryptedData[batchId])), batchId,
                 StateHashOf(batchEncryptedData[batchId]))>>

\* Mutant: a new request retires the earlier contexts of the same batch.
requestBatchAnalysisSupersedes(sender, batchId) ==
    IF requestBatchAnalysisError(sender, batchId) # "ok" THEN Revert
    ELSE LET cts == AggregateCts(batchEncryptedData[batchId])
             stateHash == HashCiphertexts(cts)
             requestId == RequestDecryption(cts)
         IN /\ requestCounter' = requestCounter + 1
            /\ decryptionContexts' =
                   [r \in RequestIdInputs |->
                       IF r = requestId THEN DecryptionContext(batchId, stateHash, FALSE)
                       ELSE IF decryptionContexts[r].batchId = batchId
                            THEN [decryptionContexts[r] EXCEPT !.processed = TRUE]
                       ELSE decryptionContexts[r]]
            /\ lastDecryptionRequestTime' =
                   [lastDecryptionRequestTime EXCEPT ![sender] = now]
            /\ requestedRecords' =
                   [requestedRecords EXCEPT ![requestId] = batchEncryptedData[batchId]]
            /\ UNCHANGED <<owner, isProvider, paused, cooldownSeconds,
                           lastSubmissionTime, currentBatchId, batches,
                           batchEncryptedData, now, acceptedSubmissions, completions>>

requestBatchAnalysis(sender, batchId) ==
    IF requestBatchAnalysisError(sender, batchId) # "ok" THEN Revert
    ELSE LET cts == AggregateCts(batchEncryptedData[batchId])
             stateHash == HashCiphertexts(cts)
             requestId == RequestDecryption(cts)
         IN /\ requestCounter' = requestCounter + 1
            /\ decryptionContexts' = [decryptionContexts EXCEPT ![requestId] =
                                          DecryptionContext(batchId, stateHash, FALSE)]
            /\ lastDecryptionRequestTime' =
                   [lastDecryptionRequestTime EXCEPT ![sender] = now]
            /\ requestedRecords' =
                   [requestedRecords EXCEPT ![requestId] = batchEncryptedData[batchId]]
            /\ UNCHANGED <<owner, isProvider, paused, cooldownSeconds,
                           lastSubmissionTime, currentBatchId, batches,
                           batchEncryptedData, now, acceptedSubmissions, completions>>

\* Mutant: the replay check is missing.
myCallbackErrorNoReplayCheck(requestId, cleartexts, proof) ==
    LET ctx == decryptionContexts[requestId]
        currentStateHash == CurrentStateHashOf(batchEncryptedData[ctx.batchId])
    IN IF currentStateHash # ctx.stateHash THEN "StateMismatch"
       ELSE IF ~CheckSignatures(requestId, cleartexts, proof) THEN "InvalidProof"
       ELSE "ok"

\* Mutant: the result of the proof verification is read the wrong way round.
myCallbackErrorProofInverted(requestId, cleartexts, proof) ==
    LET ctx == decryptionContexts[requestId]
        currentStateHash == CurrentStateHashOf(batchEncryptedData[ctx.batchId])
    IN IF ctx.processed THEN "ReplayAttempt"
       ELSE IF currentStateHash # ctx.stateHash THEN "StateMismatch"
       ELSE IF CheckSignatures(requestId, cleartexts, proof) THEN "InvalidProof"
       ELSE "ok"

\* Mutant: the proof is verified before the state hash is compared.
myCallbackErrorProofFirst(requestId, cleartexts, proof) ==
    LET ctx == decryptionContexts[requestId]
        currentStateHash == CurrentStateHashOf(batchEncryptedData[ctx.batchId])
    IN IF ctx.processed THEN "ReplayAttempt"
       ELSE IF ~CheckSignatures(requestId, cleartexts, proof) THEN "InvalidProof"
       ELSE IF currentStateHash # ctx.stateHash THEN "StateMismatch"
       ELSE "ok"

\* Mutant: the callback is gated by the pause flag.
myCallbackErrorPauseGated(requestId, cleartexts, proof) ==
    LET ctx == decryptionContexts[requestId]
        currentStateHash == CurrentStateHashOf(batchEncryptedData[ctx.batchId])
    IN IF ~WhenNotPaused THEN "Paused"
       ELSE IF ctx.processed THEN "ReplayAttempt"
       ELSE IF currentStateHash # ctx.stateHash THEN "StateMismatch"
       ELSE IF ~CheckSignatures(requestId, cleartexts, proof) THEN "InvalidProof"
       ELSE "ok"

myCallbackError(requestId, cleartexts, proof) ==
    LET ctx == decryptionContexts[requestId]
        currentStateHash == CurrentStateHashOf(batchEncryptedData[ctx.batchId])
    IN IF ctx.processed THEN "ReplayAttempt"
       ELSE IF currentStateHash # ctx.stateHash THEN "StateMismatch"
       ELSE IF ~CheckSignatures(requestId, cleartexts, proof) THEN "InvalidProof"
       ELSE "ok"

\* Mutant: the three result words are read from the payload in reverse order.
myCallbackEventsResultsReversed(requestId, cleartexts, proof) ==
    IF myCallbackError(requestId, cleartexts, proof) # "ok" THEN <<>>
    ELSE <<Event("DecryptionCompleted", requestId, decryptionContexts[requestId].batchId,
                 <<cleartexts[3], cleartexts[2], cleartexts[1]>>)>>

myCallbackEvents(requestId, cleartexts, proof) ==
    IF myCallbackError(requestId, cleartexts, proof) # "ok" THEN <<>>
    ELSE <<Event("DecryptionCompleted", requestId, decryptionContexts[requestId].batchId,
                 <<cleartexts[1], cleartexts[2], cleartexts[3]>>)>>

\* Mutant: completing a request marks every context of the same batch.
myCallbackCompletesBatch(sender, requestId, cleartexts, proof) ==
    IF myCallbackError(requestId, cleartexts, proof) # "ok" THEN Revert
    ELSE /\ decryptionContexts' =
                [r \in RequestIdInputs |->
                    IF decryptionContexts[r].batchId = decryptionContexts[requestId].batchId
                    THEN [decryptionContexts[r] EXCEPT !.processed = TRUE]
                    ELSE decryptionContexts[r]]
         /\ completions' = [completions EXCEPT ![requestId] = @ + 1]
         /\ UNCHANGED <<owner, isProvider, paused, cooldownSeconds,
                        lastSubmissionTime, lastDecryptionRequestTime,
                        currentBatchId, batches, batchEncryptedData,
                        requestCounter, now, acceptedSubmissions, requestedRecords>>

myCallback(sender, requestId, cleartexts, proof) ==
    IF myCallbackError(requestId, cleartexts, proof) # "ok" THEN Revert
    ELSE /\ decryptionContexts' =
                [decryptionContexts EXCEPT ![requestId].processed = TRUE]
         /\ completions' = [completions EXCEPT ![requestId] = @ + 1]
         /\ UNCHANGED <<owner, isProvider, paused, cooldownSeconds,
                        lastSubmissionTime, lastDecryptionRequestTime,
                        currentBatchId, batches, batchEncryptedData,
                        requestCounter, now, acceptedSubmissions, requestedRecords>>

\* ---------------------------------------------------------------- environment
\* block.timestamp moves forward between calls.
AdvanceTime ==
    /\ now' = now + 1
    /\ UNCHANGED <<storage, requestCounter, observers>>

\* One call of the contract (or a tick of the clock), within the given caps on
\* the number of batches, of records per batch and of decryption requests.
Step(maxBatches, maxRecords, maxRequests) ==
    \/ \E s \in Addr, n \in OwnerInputs : transferOwnership(s, n)
    \/ \E s \in Addr, p \in Addr : addProvider(s, p)
    \/ \E s \in Addr, p \in Addr : removeProvider(s, p)
    \/ \E s \in Addr, p \in BOOLEAN : setPaused(s, p)
    \/ \E s \in Addr, n \in CooldownInputs : setCooldownSeconds(s, n)
    \/ \E s \in Addr : currentBatchId < maxBatches /\ openBatch(s)
    \/ \E s \in Addr, b \in BatchIdInputs : closeBatch(s, b)
    \/ \E s \in Addr, r \in RecordInputs :
           Len(batchEncryptedData[currentBatchId]) < maxRecords /\ submitEncryptedData(s, r)
    \/ \E s \in Addr, b \in BatchIdInputs :
           requestCounter < maxRequests /\ requestBatchAnalysis(s, b)
    \/ \E s \in Addr, r \in RequestIdInputs, c \in CleartextInputs, p \in ProofInputs :
           myCallback(s, r, c, p)
    \/ now < MaxTime /\ AdvanceTime

Next == Step(MaxBatches, MaxRecords, MaxRequests)

Spec == Init /\ [][Next]_vars

NextRequests == Step(ReqBatches, ReqRecords, ReqRequests)

SpecRequests == Init /\ [][NextRequests]_vars

\* The oracle delivers, for request id r, cleartexts with a proof that
\* verifies for them; any address may carry the call.
DeliverCallback(r) ==
    \E s \in Addr, c \in CleartextInputs, p \in ProofInputs :
        CheckSignatures(r, c, p) /\ myCallback(s, r, c, p)

\* One batch of one record and two requests, with an oracle that does not
\* withhold a deliverable callback forever.
NextDelivery == Step(ReqBatches, MaxRecords, ReqRequests)

SpecDelivery ==
    Init /\ [][NextDelivery]_vars /\ \A r \in RequestIdInputs : WF_vars(DeliverCallback(r))

\* ---------------------------------------------------------------- record lists
\* The record lists the aggregation is evaluated on as a function of the list.
RecordLists == UNION {[1..k -> TamperRecords] : k \in 0..MaxTamperLen}

\* ================================================================ properties
\* Request ids returned by FHE.requestDecryption so far.
IssuedRequestIds == {r \in RequestIdInputs : r < requestCounter}
Pending(r) == r \in IssuedRequestIds /\ ~decryptionContexts[r].processed
Completed(r) == decryptionContexts[r].processed
HashMismatch(r) ==
    CurrentStateHashOf(batchEncryptedData[decryptionContexts[r].batchId])
        # decryptionContexts[r].stateHash

\* C1: once a request id is completed (processed = TRUE), every callback with
\* that id, whatever cleartexts and proof it carries, reverts with
\* ReplayAttempt and emits nothing, and exactly one DecryptionCompleted event
\* has ever been emitted for the id.
C1_ReplayPrevention ==
    \A r \in RequestIdInputs :
        Completed(r) =>
            /\ completions[r] = 1
            /\ \A c \in CleartextInputs, p \in ProofInputs :
                   /\ myCallbackError(r, c, p) = "ReplayAttempt"
                   /\ myCallbackEvents(r, c, p) = <<>>

\* A completed request for which a callback with a proof the verifier accepts
\* is attempted again.
C1_Witness ==
    \E r \in RequestIdInputs, c \in CleartextInputs, p \in ProofInputs :
        /\ Completed(r)
        /\ completions[r] = 1
        /\ CheckSignatures(r, c, p)

\* C2: in every step, the context of every issued request id keeps its batchId
\* and stateHash, processed never returns from TRUE to FALSE, and processed
\* becomes TRUE together with the one completion event of the id.
C2_ContextMutatedOnce ==
    [][\A r \in IssuedRequestIds :
          /\ decryptionContexts'[r].batchId = decryptionContexts[r].batchId
          /\ decryptionContexts'[r].stateHash = decryptionContexts[r].stateHash
          /\ decryptionContexts[r].processed => decryptionContexts'[r].processed
          /\ completions'[r] <= 1
          /\ (decryptionContexts'[r].processed # decryptionContexts[r].processed)
                 <=> (completions'[r] # completions[r])]_vars

\* The first request is completed, a second request has been issued after it
\* and is still pending.
C2_Witness ==
    /\ requestCounter = 2
    /\ Completed(0)
    /\ Pending(1)
    /\ decryptionContexts[0].batchId = decryptionContexts[1].batchId

\* C3: while an issued request is not completed, no completion event exists
\* for it, every callback with a proof the verifier rejects reverts with
\* InvalidProof (a StateMismatch or InvalidProof revert emits nothing), and a
\* callback with a proof the verifier accepts completes it.
C3_FailedCallbackKeepsPending ==
    \A r \in IssuedRequestIds :
        /\ Completed(r) <=> completions[r] = 1
        /\ Pending(r) =>
               \A c \in CleartextInputs, p \in ProofInputs :
                   /\ ~CheckSignatures(r, c, p) =>
                          /\ myCallbackError(r, c, p) = "InvalidProof"
                          /\ myCallbackEvents(r, c, p) = <<>>
                   /\ CheckSignatures(r, c, p) =>
                          /\ myCallbackError(r, c, p) = "ok"
                          /\ Len(myCallbackEvents(r, c, p)) = 1

\* A pending request for which both a rejected and an accepted proof exist.
C3_Witness ==
    \E r \in IssuedRequestIds :
        /\ Pending(r)
        /\ \E c \in CleartextInputs, p \in ProofInputs : myCallbackError(r, c, p) = "InvalidProof"
        /\ \E c \in CleartextInputs, p \in ProofInputs : myCallbackError(r, c, p) = "ok"

\* C4: the callback reports the first failing check in the order replay,
\* state hash, proof: ReplayAttempt for a completed id whatever the hash and
\* the proof; StateMismatch for an uncompleted id whose recomputed hash
\* differs, whatever the proof; InvalidProof only when both checks pass.
C4_CheckOrder ==
    \A r \in RequestIdInputs, c \in CleartextInputs, p \in ProofInputs :
        LET e == myCallbackError(r, c, p) IN
        /\ Completed(r) => e = "ReplayAttempt"
        /\ (~Completed(r) /\ HashMismatch(r)) => e = "StateMismatch"
        /\ e = "InvalidProof" <=>
               (~Completed(r) /\ ~HashMismatch(r) /\ ~CheckSignatures(r, c, p))
        /\ e = "ok" <=>
               (~Completed(r) /\ ~HashMismatch(r) /\ CheckSignatures(r, c, p))

\* A completed id attempted with a rejected proof, next to an uncompleted id
\* whose hash differs and for which an accepted and a rejected proof exist.
C4_Witness ==
    /\ \E r \in RequestIdInputs, c \in CleartextInputs, p \in ProofInputs :
           Completed(r) /\ ~CheckSignatures(r, c, p)
    /\ \E r \in RequestIdInputs :
           /\ ~Completed(r) /\ HashMismatch(r)
           /\ \E c \in CleartextInputs, p \in ProofInputs : CheckSignatures(r, c, p)
           /\ \E c \in CleartextInputs, p \in ProofInputs : ~CheckSignatures(r, c, p)

\* C6: every context stored by requestBatchAnalysis, pending or completed,
\* refers to a batch opened by openBatch that is closed and holds at least one
\* record.
C6_ContextBatchClosedNonEmpty ==
    \A r \in IssuedRequestIds :
        LET b == decryptionContexts[r].batchId IN
        /\ b \in 1..currentBatchId
        /\ batches[b].closed
        /\ batches[b].totalEncryptedDataPoints >= 1
        /\ Len(batchEncryptedData[b]) >= 1

\* A context exists for one batch while the other batch is open or empty.
C6_Witness ==
    \E r \in IssuedRequestIds, b \in 1..currentBatchId :
        /\ b # decryptionContexts[r].batchId
        /\ ~batches[b].closed \/ batches[b].totalEncryptedDataPoints = 0

\* A batch id requestBatchAnalysis must reject: 0, above the current id, a
\* batch still open, or a closed batch without records.
NotAnalysable(b) ==
    IF b = 0 \/ b > currentBatchId THEN TRUE
    ELSE ~batches[b].closed \/ batches[b].totalEncryptedDataPoints = 0

OwnerMayRequest ==
    /\ ~paused
    /\ ~CooldownOverflows(lastDecryptionRequestTime[owner])
    /\ ~CooldownActive(lastDecryptionRequestTime[owner])

\* C7: a requestBatchAnalysis by the owner, unpaused and outside the cooldown,
\* reverts with InvalidBatchId and emits nothing when the batch id is 0, above
\* the current id, of an open batch or of a closed batch without records.
C7_RequestRejectsInvalidBatch ==
    \A b \in BatchIdInputs :
        (OwnerMayRequest /\ NotAnalysable(b)) =>
            /\ requestBatchAnalysisError(owner, b) = "InvalidBatchId"
            /\ requestBatchAnalysisEvents(owner, b) = <<>>

\* The owner may request, batch 1 is closed and empty and batch 2 is open
\* with a record.
C7_Witness ==
    /\ OwnerMayRequest
    /\ currentBatchId = 2
    /\ batches[1].closed /\ batches[1].totalEncryptedDataPoints = 0
    /\ ~batches[2].closed /\ batches[2].totalEncryptedDataPoints = 1

\* C8: the record count of every batch equals the number of accepted
\* submitEncryptedData calls that targeted it (a rejected call reverts, so it
\* changes neither).
C8_CountEqualsAccepted ==
    \A b \in BatchIds :
        /\ batches[b].totalEncryptedDataPoints = acceptedSubmissions[b]
        /\ Len(batchEncryptedData[b]) = acceptedSubmissions[b]

\* Two submissions were accepted into batch 1, and a further one would be
\* rejected because the batch is closed.
C8_Witness ==
    /\ acceptedSubmissions[1] = 2
    /\ batches[1].closed
    /\ \E s \in Addr, rec \in RecordInputs :
           submitEncryptedDataError(s, rec) = "BatchClosedOrInvalid"

\* C9: records are stored only under ids of batches created by openBatch
\* (1..currentBatchId).
C9_RecordsOnlyInOpenedBatches ==
    \A b \in BatchIds :
        Len(batchEncryptedData[b]) > 0 => (b >= 1 /\ b <= currentBatchId /\ batches[b].id = b)

\* C10: in every step, a closed batch keeps its closed flag, its record count
\* and its record list, and no opened batch disappears.
C10_ClosedBatchFrozen ==
    [][/\ currentBatchId' >= currentBatchId
       /\ \A b \in 1..currentBatchId :
              /\ batches'[b].id = b
              /\ batches[b].closed =>
                     /\ batches'[b] = batches[b]
                     /\ batchEncryptedData'[b] = batchEncryptedData[b]]_vars

\* Batch 1 is closed with its record, and batch 2 was opened and has received
\* a record since.
C10_Witness ==
    /\ currentBatchId = 2
    /\ batches[1].closed
    /\ Len(batchEncryptedData[1]) = 1
    /\ Len(batchEncryptedData[2]) = 1

\* C11: every successful openBatch allocates exactly the next id (previous
\* current id plus one, the first being 1) and stores under it a batch with
\* that id, zero records and closed = FALSE; the current id never decreases,
\* every batch opened so far carries its own id, and no field and no record
\* of any other batch is altered by the step.
C11_IdsIncreaseByOne ==
    [][/\ currentBatchId' >= currentBatchId
       /\ currentBatchId' # currentBatchId =>
             /\ currentBatchId' = currentBatchId + 1
             /\ openBatchError(owner) = "ok"
             /\ batches'[currentBatchId'] = Batch(currentBatchId + 1, 0, FALSE)
             /\ \A b \in BatchIds \ {currentBatchId'} : batches'[b] = batches[b]
             /\ batchEncryptedData' = batchEncryptedData
       /\ \A b \in 1..currentBatchId' : batches'[b].id = b
       /\ currentBatchId = 0 /\ currentBatchId' # 0 => batches'[1].id = 1]_vars

\* A second batch has been opened while the first one, closed and holding a
\* record, kept its fields.
C11_Witness ==
    /\ currentBatchId = 2
    /\ batches[2] = Batch(2, 0, FALSE)
    /\ batches[1] = Batch(1, 1, TRUE)

\* C12: for submitEncryptedData (per provider) and requestBatchAnalysis (per
\* owner), whenever the authorization and pause gates pass, the call made at
\* time now is rejected with CooldownActive exactly when
\* now < last + cooldownSeconds, last being the caller's last accepted time
\* for that action.
C12_CooldownRejectsExactlyInWindow ==
    /\ \A s \in Addr, rec \in RecordInputs :
           OnlyProvider(s) /\ WhenNotPaused =>
               (submitEncryptedDataError(s, rec) = "CooldownActive"
                   <=> now < lastSubmissionTime[s] + cooldownSeconds)
    /\ \A s \in Addr, b \in BatchIdInputs :
           OnlyOwner(s) /\ WhenNotPaused =>
               (requestBatchAnalysisError(s, b) = "CooldownActive"
                   <=> now < lastDecryptionRequestTime[s] + cooldownSeconds)

\* C13: a step that accepts a submission sets the submitting provider's
\* lastSubmissionTime to the time of the call and moves no other timestamp; a
\* step that accepts an analysis request sets the owner's
\* lastDecryptionRequestTime to the time of the call and moves no other
\* timestamp; every other step, a rejected call included, leaves both
\* timestamps of every address unchanged.
C13_TimestampsFollowAcceptedCalls ==
    [][/\ acceptedSubmissions' # acceptedSubmissions =>
             /\ \E a \in Addr : /\ isProvider[a]
                                /\ lastSubmissionTime[a] + cooldownSeconds <= now
                                /\ lastSubmissionTime' =
                                       [lastSubmissionTime EXCEPT ![a] = now]
             /\ lastDecryptionRequestTime' = lastDecryptionRequestTime
       /\ requestCounter' # requestCounter =>
             /\ lastDecryptionRequestTime' =
                    [lastDecryptionRequestTime EXCEPT ![owner] = now]
             /\ lastSubmissionTime' = lastSubmissionTime
       /\ acceptedSubmissions' = acceptedSubmissions /\ requestCounter' = requestCounter =>
             /\ lastSubmissionTime' = lastSubmissionTime
             /\ lastDecryptionRequestTime' = lastDecryptionRequestTime]_vars

\* A provider and the owner both had a call accepted after the clock moved.
C13_Witness ==
    /\ \E a \in Addr : isProvider[a] /\ lastSubmissionTime[a] = MaxTime
    /\ lastDecryptionRequestTime[owner] = MaxTime
    /\ requestCounter > 0

\* C14: a call of transferOwnership, addProvider, removeProvider, setPaused,
\* setCooldownSeconds, openBatch, closeBatch or requestBatchAnalysis by an
\* address other than the current owner reverts with NotOwner (so changes no
\* state) and emits nothing, whatever the pause flag, the cooldown state and
\* the arguments are.
C14_OwnerOnlyGate ==
    \A s \in Addr \ {owner} :
        /\ \A o \in OwnerInputs :
               /\ transferOwnershipError(s, o) = "NotOwner"
               /\ transferOwnershipEvents(s, o) = <<>>
        /\ \A p \in Addr :
               /\ addProviderError(s, p) = "NotOwner"
               /\ addProviderEvents(s, p) = <<>>
               /\ removeProviderError(s, p) = "NotOwner"
               /\ removeProviderEvents(s, p) = <<>>
        /\ \A v \in BOOLEAN :
               /\ setPausedError(s, v) = "NotOwner"
               /\ setPausedEvents(s, v) = <<>>
        /\ \A c \in CooldownInputs :
               /\ setCooldownSecondsError(s, c) = "NotOwner"
               /\ setCooldownSecondsEvents(s, c) = <<>>
        /\ openBatchError(s) = "NotOwner"
        /\ openBatchEvents(s) = <<>>
        /\ \A b \in BatchIdInputs :
               /\ closeBatchError(s, b) = "NotOwner"
               /\ closeBatchEvents(s, b) = <<>>
               /\ requestBatchAnalysisError(s, b) = "NotOwner"
               /\ requestBatchAnalysisEvents(s, b) = <<>>

\* The contract is paused and a former owner, still inside the request
\* cooldown window, is no longer the owner, while a closed non-empty batch
\* exists that the owner could have analysed.
C14_Witness ==
    /\ paused
    /\ \E s \in Addr \ {owner} :
           /\ lastDecryptionRequestTime[s] = now
           /\ cooldownSeconds > 0
    /\ \E b \in 1..currentBatchId :
           batches[b].closed /\ batches[b].totalEncryptedDataPoints > 0

\* C15: submitEncryptedData is accepted only when the caller is in the
\* provider set at the time of the call; a caller outside the set (never
\* added, or added and removed again, the owner included) is rejected with
\* NotProvider whatever the record, the pause flag and the cooldown are, and
\* nothing is emitted or appended.
C15_ProviderOnlyGate ==
    \A s \in Addr, rec \in RecordInputs :
        /\ ~isProvider[s] =>
               /\ submitEncryptedDataError(s, rec) = "NotProvider"
               /\ submitEncryptedDataEvents(s, rec) = <<>>
        /\ submitEncryptedDataError(s, rec) = "ok" => isProvider[s]

\* The owner is not a provider, a former provider that once submitted has
\* been removed, and the current batch is open and the contract not paused,
\* so that only the provider gate stands in the way.
C15_Witness ==
    /\ ~isProvider[owner]
    /\ \E a \in Addr \ {owner} :
           /\ ~isProvider[a]
           /\ lastSubmissionTime[a] > 0
           /\ ~CooldownOverflows(lastSubmissionTime[a])
           /\ ~CooldownActive(lastSubmissionTime[a])
    /\ ~paused
    /\ currentBatchId >= 1
    /\ ~batches[currentBatchId].closed

\* C16: while the contract is paused, openBatch, closeBatch and
\* requestBatchAnalysis called by the owner and submitEncryptedData called by
\* a provider revert with Paused and emit nothing, whatever their arguments;
\* and no step taken from a paused state opens or closes a batch, appends a
\* record, moves a cooldown timestamp or creates a decryption context.
C16_PauseGate ==
    /\ [](paused =>
             /\ openBatchError(owner) = "Paused"
             /\ openBatchEvents(owner) = <<>>
             /\ \A b \in BatchIdInputs :
                    /\ closeBatchError(owner, b) = "Paused"
                    /\ closeBatchEvents(owner, b) = <<>>
                    /\ requestBatchAnalysisError(owner, b) = "Paused"
                    /\ requestBatchAnalysisEvents(owner, b) = <<>>
             /\ \A s \in Addr, rec \in RecordInputs :
                    isProvider[s] =>
                        /\ submitEncryptedDataError(s, rec) = "Paused"
                        /\ submitEncryptedDataEvents(s, rec) = <<>>)
    /\ [][paused => UNCHANGED <<currentBatchId, batches, batchEncryptedData,
                                lastSubmissionTime, lastDecryptionRequestTime,
                                requestCounter, requestedRecords,
                                acceptedSubmissions>>]_vars

\* The contract is paused while each gated call would otherwise go through:
\* the current batch is open, a provider is outside its cooldown window, and
\* a closed non-empty batch awaits analysis by an owner outside the window.
C16_Witness ==
    /\ paused
    /\ ~batches[currentBatchId].closed
    /\ \E s \in Addr : /\ isProvider[s]
                       /\ ~CooldownOverflows(lastSubmissionTime[s])
                       /\ ~CooldownActive(lastSubmissionTime[s])
    /\ ~CooldownOverflows(lastDecryptionRequestTime[owner])
    /\ ~CooldownActive(lastDecryptionRequestTime[owner])
    /\ \E b \in 1..currentBatchId :
           batches[b].closed /\ batches[b].totalEncryptedDataPoints > 0

\* C17: setPaused called by the owner with the value the pause flag already
\* has emits no event (and changes nothing); called with the other value it
\* emits exactly one event, ContractPaused for TRUE and ContractUnpaused for
\* FALSE, naming the caller. A step that changes the flag changes nothing
\* else, and repeating the same call right after it emits nothing.
C17_SetPausedIdempotent ==
    /\ [](\A v \in BOOLEAN :
             /\ setPausedError(owner, v) = "ok"
             /\ v = paused => setPausedEvents(owner, v) = <<>>
             /\ v # paused =>
                    setPausedEvents(owner, v) =
                        <<Event(IF v THEN "ContractPaused" ELSE "ContractUnpaused",
                                owner, 0, 0)>>)
    /\ [][paused' # paused =>
             /\ UNCHANGED <<owner, isProvider, cooldownSeconds, lastSubmissionTime,
                            lastDecryptionRequestTime, currentBatchId, batches,
                            batchEncryptedData, decryptionContexts, requestCounter,
                            now, observers>>
             /\ \A v \in BOOLEAN :
                    paused' = v => (setPausedEvents(owner, v))' = <<>>]_vars

\* The contract has been paused, so that setPaused(TRUE) is now the no-op and
\* setPaused(FALSE) the changing call.
C17_Witness ==
    /\ paused
    /\ setPausedEvents(owner, TRUE) = <<>>
    /\ Len(setPausedEvents(owner, FALSE)) = 1

\* C18: addProvider(p) by the owner emits nothing when p is already a
\* provider and exactly one ProviderAdded(p) otherwise; removeProvider(p)
\* emits nothing when p is not a provider and exactly one ProviderRemoved(p)
\* otherwise. A step that changes the provider set flips the membership of
\* exactly one address and changes nothing else, and repeating the same call
\* right after it emits nothing.
C18_ProviderChangesIdempotent ==
    /\ [](\A p \in Addr :
             /\ addProviderError(owner, p) = "ok"
             /\ removeProviderError(owner, p) = "ok"
             /\ addProviderEvents(owner, p) =
                    (IF isProvider[p] THEN <<>>
                     ELSE <<Event("ProviderAdded", p, 0, 0)>>)
             /\ removeProviderEvents(owner, p) =
                    (IF isProvider[p] THEN <<Event("ProviderRemoved", p, 0, 0)>>
                     ELSE <<>>))
    /\ [][isProvider' # isProvider =>
             /\ UNCHANGED <<owner, paused, cooldownSeconds, lastSubmissionTime,
                            lastDecryptionRequestTime, currentBatchId, batches,
                            batchEncryptedData, decryptionContexts, requestCounter,
                            now, observers>>
             /\ \E p \in Addr :
                    /\ isProvider' = [isProvider EXCEPT ![p] = ~isProvider[p]]
                    /\ isProvider'[p] => (addProviderEvents(owner, p))' = <<>>
                    /\ ~isProvider'[p] => (removeProviderEvents(owner, p))' = <<>>]_vars

\* One address is a provider and another is not, so that for each of the two
\* functions both the no-op call and the changing call exist.
C18_Witness ==
    \E p, q \in Addr :
        /\ isProvider[p] /\ ~isProvider[q]
        /\ addProviderEvents(owner, p) = <<>>
        /\ Len(addProviderEvents(owner, q)) = 1
        /\ Len(removeProviderEvents(owner, p)) = 1
        /\ removeProviderEvents(owner, q) = <<>>

\* What an honestly decrypting oracle returns for request r: the decryptions
\* of the three ciphertexts handed to FHE.requestDecryption, with the KMS
\* proof over them.
OracleCleartexts(r) ==
    LET cts == AggregateCts(requestedRecords[r])
    IN <<Decrypt(cts[1]), Decrypt(cts[2]), Decrypt(cts[3])>>
OracleProof(r) == <<"kms", r, OracleCleartexts(r)>>

RECURSIVE FieldSum(_, _)
\* The sum, in euint32 arithmetic, of the plaintexts of field f over a record
\* list.
FieldSum(data, f) ==
    IF data = <<>> THEN 0
    ELSE (PlaintextOf(Head(data)[f]) + FieldSum(Tail(data), f)) % (MaxEuint32 + 1)

\* C19: for every pending request r of batch b, a callback carrying cleartexts
\* and a proof that verifies for them succeeds and emits exactly one
\* DecryptionCompleted event with r, b and the first, second and third word of
\* the cleartexts as results; with the honest oracle's cleartexts these
\* results are the sums of the plaintexts of antigenAffinity, antibodyCount
\* and tCellEffectiveness over the records of b, in this order. The step that
\* completes r sets its processed flag.
C19_EndToEndCompletion ==
    /\ [](\A r \in IssuedRequestIds :
             Pending(r) =>
                 LET b == decryptionContexts[r].batchId
                     honest == myCallbackEvents(r, OracleCleartexts(r), OracleProof(r))
                 IN /\ \A c \in CleartextInputs, p \in ProofInputs :
                           CheckSignatures(r, c, p) =>
                               /\ myCallbackError(r, c, p) = "ok"
                               /\ myCallbackEvents(r, c, p) =
                                      <<Event("DecryptionCompleted", r, b,
                                              <<c[1], c[2], c[3]>>)>>
                    /\ myCallbackError(r, OracleCleartexts(r), OracleProof(r)) = "ok"
                    /\ Len(honest) = 1
                    /\ honest[1][4] = <<FieldSum(batchEncryptedData[b], 1),
                                        FieldSum(batchEncryptedData[b], 2),
                                        FieldSum(batchEncryptedData[b], 3)>>)
    /\ [][\A r \in RequestIdInputs :
             completions'[r] # completions[r] =>
                 /\ Pending(r)
                 /\ completions'[r] = completions[r] + 1
                 /\ decryptionContexts'[r] =
                        [decryptionContexts[r] EXCEPT !.processed = TRUE]]_vars

\* A request over a batch of two records has been completed by a callback,
\* and another request over it is pending for which the honest oracle's
\* cleartexts and proof are among the callback's inputs.
C19_Witness ==
    \E r, q \in IssuedRequestIds :
        /\ Completed(q) /\ completions[q] = 1
        /\ Pending(r)
        /\ Len(batchEncryptedData[decryptionContexts[r].batchId]) = 2
        /\ OracleCleartexts(r) \in CleartextInputs
        /\ OracleProof(r) \in ProofInputs

\* C20: the ciphertext triple and the hash that myCallback rebuilds from a
\* record list are the ones requestBatchAnalysis builds from the same list:
\* for every record list the two loops give the same three sums (each the
\* left-to-right chain of fheAdd starting from asEuint32(0)) and the same
\* hash, and for every issued request whose batch still holds the list that
\* was aggregated, the hash rebuilt now equals the hash stored at request
\* time, whatever the pause flag, owner, providers, timestamps, other batches
\* and other contexts have become since.
C20_AggregationDeterministic ==
    /\ \A data \in RecordLists :
           /\ CurrentCts(data) = AggregateCts(data)
           /\ CurrentStateHashOf(data) = StateHashOf(data)
           /\ \A f \in 1..3 :
                  AggregateCts(data)[f] =
                      [zero |-> 0, adds |-> [i \in 1..Len(data) |-> data[i][f]]]
    /\ \A r \in IssuedRequestIds :
           LET data == batchEncryptedData[decryptionContexts[r].batchId]
           IN data = requestedRecords[r] =>
                  /\ CurrentCts(data) = AggregateCts(requestedRecords[r])
                  /\ CurrentStateHashOf(data) = decryptionContexts[r].stateHash
                  /\ ~HashMismatch(r)

\* Two requests over the same two-record batch were issued at different
\* times, and since the later one the contract has been paused, so that the
\* callback rebuilds the sums in a state unlike those of the requests.
C20_Witness ==
    \E r, q \in IssuedRequestIds :
        /\ r # q
        /\ decryptionContexts[r].batchId = decryptionContexts[q].batchId
        /\ Len(requestedRecords[r]) = 2
        /\ batchEncryptedData[decryptionContexts[r].batchId] = requestedRecords[r]
        /\ decryptionContexts[r].stateHash = decryptionContexts[q].stateHash
        /\ paused
        /\ now = MaxTime

\* The custom errors of the contract.
NamedErrors ==
    {"NotOwner", "NotProvider", "Paused", "CooldownActive", "BatchClosedOrInvalid",
     "InvalidBatchId", "ReplayAttempt", "StateMismatch", "InvalidProof",
     "NotInitialized"}

\* C21: a call that ends in one of the named errors emits no event and is
\* never a step that changes the state: owner, providers, pause flag,
\* cooldown, both timestamp maps, current batch id, batch table, record lists
\* and context table are all as before the call.
C21_AtomicFailure ==
    /\ [](/\ \A s \in Addr, o \in OwnerInputs :
                transferOwnershipError(s, o) \in NamedErrors =>
                    transferOwnershipEvents(s, o) = <<>>
          /\ \A s \in Addr, p \in Addr :
                /\ addProviderError(s, p) \in NamedErrors => addProviderEvents(s, p) = <<>>
                /\ removeProviderError(s, p) \in NamedErrors =>
                       removeProviderEvents(s, p) = <<>>
          /\ \A s \in Addr, v \in BOOLEAN :
                setPausedError(s, v) \in NamedErrors => setPausedEvents(s, v) = <<>>
          /\ \A s \in Addr, c \in CooldownInputs :
                setCooldownSecondsError(s, c) \in NamedErrors =>
                    setCooldownSecondsEvents(s, c) = <<>>
          /\ \A s \in Addr : openBatchError(s) \in NamedErrors => openBatchEvents(s) = <<>>
          /\ \A s \in Addr, b \in BatchIdInputs :
                /\ closeBatchError(s, b) \in NamedErrors => closeBatchEvents(s, b) = <<>>
                /\ requestBatchAnalysisError(s, b) \in NamedErrors =>
                       requestBatchAnalysisEvents(s, b) = <<>>
          /\ \A s \in Addr, rec \in RecordInputs :
                submitEncryptedDataError(s, rec) \in NamedErrors =>
                    submitEncryptedDataEvents(s, rec) = <<>>
          /\ \A r \in RequestIdInputs, c \in CleartextInputs, p \in ProofInputs :
                myCallbackError(r, c, p) \in NamedErrors => myCallbackEvents(r, c, p) = <<>>)
    /\ [][/\ \A s \in Addr, o \in OwnerInputs :
                transferOwnershipError(s, o) \in NamedErrors => ~transferOwnership(s, o)
          /\ \A s \in Addr, p \in Addr :
                /\ addProviderError(s, p) \in NamedErrors => ~addProvider(s, p)
                /\ removeProviderError(s, p) \in NamedErrors => ~removeProvider(s, p)
          /\ \A s \in Addr, v \in BOOLEAN :
                setPausedError(s, v) \in NamedErrors => ~setPaused(s, v)
          /\ \A s \in Addr, c \in CooldownInputs :
                setCooldownSecondsError(s, c) \in NamedErrors => ~setCooldownSeconds(s, c)
          /\ \A s \in Addr : openBatchError(s) \in NamedErrors => ~openBatch(s)
          /\ \A s \in Addr, b \in BatchIdInputs :
                /\ closeBatchError(s, b) \in NamedErrors => ~closeBatch(s, b)
                /\ requestBatchAnalysisError(s, b) \in NamedErrors =>
                       ~requestBatchAnalysis(s, b)
          /\ \A s \in Addr, rec \in RecordInputs :
                submitEncryptedDataError(s, rec) \in NamedErrors =>
                    ~submitEncryptedData(s, rec)
          /\ \A s \in Addr, r \in RequestIdInputs, c \in CleartextInputs, p \in ProofInputs :
                myCallbackError(r, c, p) \in NamedErrors => ~myCallback(s, r, c, p)]_vars

\* In one state calls exist that end in an authorization error, in
\* CooldownActive, in BatchClosedOrInvalid, in NotInitialized, in
\* InvalidBatchId, in ReplayAttempt and in StateMismatch.
C21_Witness ==
    /\ \E s \in Addr : openBatchError(s) = "NotOwner"
    /\ \E s \in Addr, rec \in RecordInputs :
           submitEncryptedDataError(s, rec) = "BatchClosedOrInvalid"
    /\ \E s \in Addr, rec \in RecordInputs :
           submitEncryptedDataError(s, rec) = "NotInitialized"
    /\ \E s \in Addr, rec \in RecordInputs :
           submitEncryptedDataError(s, rec) = "CooldownActive"
    /\ \E b \in BatchIdInputs : closeBatchError(owner, b) = "InvalidBatchId"
    /\ \E r \in RequestIdInputs, c \in CleartextInputs, p \in ProofInputs :
           myCallbackError(r, c, p) = "ReplayAttempt"
    /\ \E r \in RequestIdInputs, c \in CleartextInputs, p \in ProofInputs :
           myCallbackError(r, c, p) = "StateMismatch"

\* C22: while the contract is not paused, closeBatch(id) by the owner succeeds
\* exactly when 1 <= id <= currentBatchId and batch id is not closed, and
\* reverts with InvalidBatchId otherwise; a successful call emits one
\* BatchClosed event carrying id and the batch's record count, and the step
\* that closes a batch changes nothing but that batch's closed flag.
C22_CloseBatchExactly ==
    /\ [](~paused =>
             \A id \in BatchIdInputs :
                 IF 1 <= id /\ id <= currentBatchId /\ ~batches[id].closed
                 THEN /\ closeBatchError(owner, id) = "ok"
                      /\ closeBatchEvents(owner, id) =
                             <<Event("BatchClosed", id,
                                     batches[id].totalEncryptedDataPoints, 0)>>
                      /\ batches[id].totalEncryptedDataPoints =
                             Len(batchEncryptedData[id])
                 ELSE /\ closeBatchError(owner, id) = "InvalidBatchId"
                      /\ closeBatchEvents(owner, id) = <<>>)
    /\ [][\A id \in BatchIds :
             batches'[id].closed # batches[id].closed =>
                 /\ closeBatchError(owner, id) = "ok"
                 /\ batches' = [batches EXCEPT ![id].closed = TRUE]
                 /\ UNCHANGED <<owner, isProvider, paused, cooldownSeconds,
                                lastSubmissionTime, lastDecryptionRequestTime,
                                currentBatchId, batchEncryptedData, decryptionContexts,
                                requestCounter, now, observers>>]_vars

\* The owner, not paused, faces a closed batch holding a record, an open
\* batch, the id 0 and an id above the current one.
C22_Witness ==
    /\ ~paused
    /\ currentBatchId = 2
    /\ batches[1].closed /\ batches[1].totalEncryptedDataPoints = 1
    /\ ~batches[2].closed
    /\ closeBatchError(owner, 0) = "InvalidBatchId"
    /\ closeBatchError(owner, 3) = "InvalidBatchId"

\* A provider that is outside its cooldown window while the contract is not
\* paused, and a record of three initialized handles.
MaySubmit(s) ==
    /\ isProvider[s]
    /\ ~paused
    /\ ~CooldownOverflows(lastSubmissionTime[s])
    /\ ~CooldownActive(lastSubmissionTime[s])
WellFormed(rec) == IsInitialized(rec[1]) /\ IsInitialized(rec[2]) /\ IsInitialized(rec[3])

\* C23: while the current batch is closed, every submitEncryptedData of a
\* well-formed record by a provider that passes the pause and cooldown gates
\* reverts with BatchClosedOrInvalid and emits nothing; the current batch
\* stops being a closed one only by a step of openBatch, which makes the next
\* id current with an open batch; while the current batch is open the same
\* call is accepted, and a record is only ever appended to the current batch
\* while it is open.
C23_ClosedCurrentRejectsUntilOpen ==
    /\ [](\A s \in Addr, rec \in RecordInputs :
             MaySubmit(s) /\ WellFormed(rec) =>
                 IF batches[currentBatchId].closed
                 THEN /\ submitEncryptedDataError(s, rec) = "BatchClosedOrInvalid"
                      /\ submitEncryptedDataEvents(s, rec) = <<>>
                 ELSE /\ submitEncryptedDataError(s, rec) = "ok"
                      /\ submitEncryptedDataEvents(s, rec) =
                             <<Event("DataSubmitted", s, currentBatchId, 1)>>)
    /\ [][/\ batches[currentBatchId].closed /\ ~batches'[currentBatchId'].closed =>
                /\ openBatchError(owner) = "ok"
                /\ currentBatchId' = currentBatchId + 1
                /\ batchEncryptedData' = batchEncryptedData
          /\ currentBatchId' # currentBatchId => ~batches'[currentBatchId'].closed
          /\ \A b \in BatchIds :
                batchEncryptedData'[b] # batchEncryptedData[b] =>
                    /\ b = currentBatchId
                    /\ ~batches[b].closed]_vars

\* Batch 1 was closed with a record in it, batch 2 was opened and has taken a
\* record since.
C23_Witness ==
    /\ currentBatchId = 2
    /\ batches[1].closed
    /\ Len(batchEncryptedData[1]) = 1
    /\ ~batches[2].closed
    /\ Len(batchEncryptedData[2]) = 1

\* C24: in every reachable state and for every request id issued by
\* requestBatchAnalysis, the batch of its context still holds the record list
\* that was aggregated, the hash rebuilt from the current records equals the
\* stored stateHash, and no callback for that id, whatever its cleartexts and
\* proof, reverts with StateMismatch.
C24_FingerprintStable ==
    \A r \in IssuedRequestIds :
        LET ctx == decryptionContexts[r]
        IN /\ batchEncryptedData[ctx.batchId] = requestedRecords[r]
           /\ CurrentStateHashOf(batchEncryptedData[ctx.batchId]) = ctx.stateHash
           /\ \A c \in CleartextInputs, p \in ProofInputs :
                  myCallbackError(r, c, p) # "StateMismatch"

\* Since the request was issued, time has passed, a later batch was opened
\* and took a record, the ownership moved and the contract was paused.
C24_Witness ==
    \E r \in IssuedRequestIds :
        /\ Pending(r)
        /\ decryptionContexts[r].batchId < currentBatchId
        /\ Len(batchEncryptedData[currentBatchId]) = 1
        /\ lastDecryptionRequestTime[Deployer] < now
        /\ owner # Deployer
        /\ paused

\* C25: for every issued request, pending or completed, of batch b, a further
\* requestBatchAnalysis(b) by the owner, unpaused and outside the cooldown,
\* succeeds under a request id not issued before and announces the same batch
\* id and the same stateHash; the step that issues a request writes only the
\* context of the new id, so contexts of one batch agree on batch id and hash,
\* and the step that completes one request changes no other context.
C25_ReRequestPermitted ==
    /\ [](\A r \in IssuedRequestIds :
             LET ctx == decryptionContexts[r]
             IN /\ OwnerMayRequest =>
                       /\ requestBatchAnalysisError(owner, ctx.batchId) = "ok"
                       /\ requestBatchAnalysisEvents(owner, ctx.batchId) =
                              <<Event("DecryptionRequested", requestCounter,
                                      ctx.batchId, ctx.stateHash)>>
                       /\ requestCounter \notin IssuedRequestIds
                /\ \A q \in IssuedRequestIds :
                       decryptionContexts[q].batchId = ctx.batchId =>
                           decryptionContexts[q].stateHash = ctx.stateHash)
    /\ [][/\ requestCounter' # requestCounter =>
                /\ requestCounter' = requestCounter + 1
                /\ ~decryptionContexts'[requestCounter].processed
                /\ \A q \in RequestIdInputs \ {requestCounter} :
                       decryptionContexts'[q] = decryptionContexts[q]
          /\ \A r \in RequestIdInputs :
                decryptionContexts'[r].processed # decryptionContexts[r].processed =>
                    \A q \in RequestIdInputs \ {r} :
                        decryptionContexts'[q] = decryptionContexts[q]]_vars

\* Two requests were issued for the same batch; one has been completed and
\* the other is still pending.
C25_Witness ==
    \E r, q \in IssuedRequestIds :
        /\ r # q
        /\ decryptionContexts[r].batchId = decryptionContexts[q].batchId
        /\ decryptionContexts[r].stateHash = decryptionContexts[q].stateHash
        /\ Completed(r) /\ completions[r] = 1
        /\ Pending(q) /\ completions[q] = 0

\* C26: a pending context is changed by no step other than a successful
\* callback for its own request id, which only sets its processed flag: every
\* administrative call, batch operation, submission, new request, failed
\* callback and callback for another id leaves it as it is, and an issued id
\* stays issued.
C26_NoCancellation ==
    [][/\ requestCounter' >= requestCounter
       /\ \A r \in IssuedRequestIds :
             Pending(r) =>
                 \/ decryptionContexts'[r] = decryptionContexts[r]
                 \/ /\ decryptionContexts'[r] =
                           [decryptionContexts[r] EXCEPT !.processed = TRUE]
                    /\ completions'[r] = completions[r] + 1
                    /\ \E s \in Addr, c \in CleartextInputs, p \in ProofInputs :
                           /\ myCallbackError(r, c, p) = "ok"
                           /\ myCallback(s, r, c, p)]_vars

\* A request is still pending although, since it was issued, another request
\* was issued and completed, the ownership moved, the providers were removed
\* and the contract was paused.
C26_Witness ==
    \E r, q \in IssuedRequestIds :
        /\ r < q
        /\ Pending(r)
        /\ Completed(q)
        /\ owner # Deployer
        /\ \A a \in Addr : ~isProvider[a]
        /\ paused

\* C27: processed is TRUE and a DecryptionCompleted event exists only for
\* request ids issued by requestBatchAnalysis; a callback with an id that was
\* never issued reverts with StateMismatch and emits nothing, whatever its
\* cleartexts and proof, a proof that verifies for them included.
C27_CompletionOnlyForIssued ==
    \A r \in RequestIdInputs \ IssuedRequestIds :
        /\ ~decryptionContexts[r].processed
        /\ completions[r] = 0
        /\ \A c \in CleartextInputs, p \in ProofInputs :
               /\ myCallbackError(r, c, p) = "StateMismatch"
               /\ myCallbackEvents(r, c, p) = <<>>

\* Request 0 was issued and completed; for the id 1, never issued, the inputs
\* hold cleartexts with a proof that verifies; batch 0, which the empty
\* context of id 1 points to, is empty.
C27_Witness ==
    /\ requestCounter = 1
    /\ Completed(0)
    /\ batchEncryptedData[0] = <<>>
    /\ \E c \in CleartextInputs, p \in ProofInputs : CheckSignatures(1, c, p)

\* C28: in every reachable state, paused or not, whoever owns the contract,
\* whoever is a provider and whatever batches exist, a callback for a pending
\* request id with cleartexts and a proof that verifies for them is enabled
\* for every caller and completes the request; hence, when the delivery of
\* such a callback is weakly fair, every issued request is eventually
\* completed.
C28_CallbackLiveness ==
    /\ [](\A r \in IssuedRequestIds :
             Pending(r) =>
                 /\ \E c \in CleartextInputs, p \in ProofInputs : CheckSignatures(r, c, p)
                 /\ \A s \in Addr, c \in CleartextInputs, p \in ProofInputs :
                        CheckSignatures(r, c, p) =>
                            /\ myCallbackError(r, c, p) = "ok"
                            /\ ENABLED (myCallback(s, r, c, p)
                                          /\ decryptionContexts'[r].processed))
    /\ \A r \in RequestIdInputs : (r \in IssuedRequestIds) ~> Completed(r)

\* A request is pending while the contract is paused, the ownership has moved
\* and no provider is left.
C28_Witness ==
    \E r \in IssuedRequestIds :
        /\ Pending(r)
        /\ paused
        /\ owner # Deployer
        /\ \A a \in Addr : ~isProvider[a]
        /\ \E c \in CleartextInputs, p \in ProofInputs : CheckSignatures(r, c, p)

\* C29: in every reachable state and for every batch id, ids never opened
\* included, totalEncryptedDataPoints equals the length of the batch's record
\* list.
C29_CountIsListLength ==
    \A b \in BatchIds :
        batches[b].totalEncryptedDataPoints = Len(batchEncryptedData[b])

\* Batch 1 holds a record and is closed, batch 2 was opened after it and
\* holds one too, and the never-opened id 0 holds one as well.
C29_Witness ==
    /\ currentBatchId = 2
    /\ batches[1].closed
    /\ Len(batchEncryptedData[0]) = 1
    /\ Len(batchEncryptedData[1]) = 1
    /\ Len(batchEncryptedData[2]) = 1

\* Batches created by openBatch that are no longer the current one.
SupersededBatchIds == {b \in BatchIds : 1 <= b /\ b < currentBatchId}

\* C30: openBatch by the owner succeeds, when not paused, whether or not the
\* current batch is closed, and the step leaves the previous current batch as
\* it was; a batch that is no longer current gets no further record and keeps
\* its records and its count in every step; if it is still open the owner can
\* close it, and once it is closed and holds a record the owner, outside the
\* cooldown, can request its analysis.
C30_SupersededBatches ==
    /\ [](/\ ~paused => openBatchError(owner) = "ok"
          /\ \A b \in SupersededBatchIds :
                /\ (~paused /\ ~batches[b].closed) => closeBatchError(owner, b) = "ok"
                /\ (OwnerMayRequest /\ batches[b].closed
                        /\ batches[b].totalEncryptedDataPoints > 0) =>
                       requestBatchAnalysisError(owner, b) = "ok")
    /\ [][/\ currentBatchId' # currentBatchId =>
                /\ batches'[currentBatchId] = batches[currentBatchId]
                /\ batchEncryptedData'[currentBatchId] = batchEncryptedData[currentBatchId]
          /\ \A b \in SupersededBatchIds :
                /\ batchEncryptedData'[b] = batchEncryptedData[b]
                /\ batches'[b].totalEncryptedDataPoints =
                       batches[b].totalEncryptedDataPoints
                /\ batches'[b].id = batches[b].id]_vars

\* Batch 2 was opened while batch 1, holding a record, was still open, and
\* has taken a record of its own.
C30_Witness ==
    /\ currentBatchId = 2
    /\ ~batches[1].closed
    /\ Len(batchEncryptedData[1]) = 1
    /\ Len(batchEncryptedData[2]) = 1
    /\ ~paused

\* C31: there is one owner at any time: the owner passes the owner gate of
\* every owner-only function and every other address is rejected by it with
\* NotOwner; owner changes only in a step of transferOwnership called by the
\* owner, which changes nothing else, and after it the previous owner is
\* rejected and the new one passes; the request cooldown of the owner is
\* decided by the owner's own lastDecryptionRequestTime alone.
C31_SingleOwner ==
    /\ [](/\ owner \in Addr
          /\ \A s \in Addr :
                /\ (transferOwnershipError(s, s) = "NotOwner") <=> (s # owner)
                /\ (addProviderError(s, s) = "NotOwner") <=> (s # owner)
                /\ (removeProviderError(s, s) = "NotOwner") <=> (s # owner)
                /\ (setPausedError(s, paused) = "NotOwner") <=> (s # owner)
                /\ (setCooldownSecondsError(s, cooldownSeconds) = "NotOwner")
                       <=> (s # owner)
                /\ (openBatchError(s) = "NotOwner") <=> (s # owner)
                /\ \A b \in BatchIdInputs :
                       /\ (closeBatchError(s, b) = "NotOwner") <=> (s # owner)
                       /\ (requestBatchAnalysisError(s, b) = "NotOwner") <=> (s # owner)
          /\ \A b \in BatchIdInputs :
                /\ requestBatchAnalysisError(owner, b) = "CooldownActive" =>
                       now < lastDecryptionRequestTime[owner] + cooldownSeconds
                /\ OwnerMayRequest =>
                       requestBatchAnalysisError(owner, b) \in {"ok", "InvalidBatchId"})
    /\ [][owner' # owner =>
             /\ transferOwnershipError(owner, owner') = "ok"
             /\ transferOwnershipEvents(owner, owner') =
                    <<Event("OwnershipTransferred", owner, owner', 0)>>
             /\ UNCHANGED <<isProvider, paused, cooldownSeconds, lastSubmissionTime,
                            lastDecryptionRequestTime, currentBatchId, batches,
                            batchEncryptedData, decryptionContexts, requestCounter,
                            now, observers>>]_vars

\* The ownership has moved away from the deployer, whose last request is
\* still inside the cooldown window, while the new owner, who never made a
\* request, may request the analysis of a closed batch holding a record.
C31_Witness ==
    /\ owner # Deployer
    /\ cooldownSeconds > 0
    /\ lastDecryptionRequestTime[Deployer] > 0
    /\ now < lastDecryptionRequestTime[Deployer] + cooldownSeconds
    /\ lastDecryptionRequestTime[owner] = 0
    /\ \E b \in 1..currentBatchId : requestBatchAnalysisError(owner, b) = "ok"

\* C32: the cooldown of a submission is decided by the caller's own
\* lastSubmissionTime and that of an analysis request by the caller's own
\* lastDecryptionRequestTime: a call is rejected with CooldownActive only
\* inside the caller's own window of that kind, and a call that passes the
\* earlier gates outside that window is not stopped by the cooldown. A step
\* that accepts a submission changes one address's lastSubmissionTime and no
\* lastDecryptionRequestTime, a step that accepts a request changes the
\* owner's lastDecryptionRequestTime and no lastSubmissionTime, so neither
\* starts a window of the other kind or of another address.
C32_IndependentCooldownClocks ==
    /\ [](/\ \A s \in Addr, rec \in RecordInputs :
                /\ submitEncryptedDataError(s, rec) = "CooldownActive" =>
                       now < lastSubmissionTime[s] + cooldownSeconds
                /\ MaySubmit(s) =>
                       submitEncryptedDataError(s, rec) \notin {"CooldownActive", "Panic"}
          /\ \A s \in Addr, b \in BatchIdInputs :
                requestBatchAnalysisError(s, b) = "CooldownActive" =>
                    now < lastDecryptionRequestTime[s] + cooldownSeconds)
    /\ [][/\ lastSubmissionTime' # lastSubmissionTime =>
                /\ lastDecryptionRequestTime' = lastDecryptionRequestTime
                /\ \E a \in Addr :
                       /\ \A s \in Addr \ {a} :
                              lastSubmissionTime'[s] = lastSubmissionTime[s]
                       /\ \A s \in Addr \ {a}, rec \in RecordInputs :
                              submitEncryptedDataError(s, rec)' =
                                  submitEncryptedDataError(s, rec)
                /\ \A s \in Addr, b \in BatchIdInputs :
                       requestBatchAnalysisError(s, b)' = requestBatchAnalysisError(s, b)
          /\ lastDecryptionRequestTime' # lastDecryptionRequestTime =>
                /\ lastSubmissionTime' = lastSubmissionTime
                /\ \A s \in Addr \ {owner} :
                       lastDecryptionRequestTime'[s] = lastDecryptionRequestTime[s]
                /\ \A s \in Addr, rec \in RecordInputs :
                       submitEncryptedDataError(s, rec)' = submitEncryptedDataError(s, rec)]_vars

\* One provider is inside its submission window while another address, the
\* owner, is inside the request window and yet free to submit.
C32_Witness ==
    \E a \in Addr :
        /\ a # owner
        /\ submitEncryptedDataError(a, <<1, 2, 3>>) = "CooldownActive"
        /\ submitEncryptedDataError(owner, <<1, 2, 3>>) = "ok"
        /\ \E b \in BatchIdInputs : requestBatchAnalysisError(owner, b) = "CooldownActive"

\* C33: while the contract is paused, setPaused, addProvider, removeProvider,
\* transferOwnership and setCooldownSeconds called by the owner succeed with
\* every argument and take effect; in particular from every paused state one
\* call setPaused(FALSE) by the owner leads to a state that is not paused and
\* emits ContractUnpaused.
C33_AdminNotPauseGated ==
    paused =>
        /\ \A v \in BOOLEAN : setPausedError(owner, v) = "ok"
        /\ setPausedEvents(owner, FALSE) = <<Event("ContractUnpaused", owner, 0, 0)>>
        /\ ENABLED (setPaused(owner, FALSE) /\ ~paused')
        /\ \A p \in Addr :
               /\ addProviderError(owner, p) = "ok"
               /\ ENABLED (addProvider(owner, p) /\ isProvider'[p])
               /\ removeProviderError(owner, p) = "ok"
               /\ ENABLED (removeProvider(owner, p) /\ ~isProvider'[p])
        /\ \A n \in OwnerInputs :
               /\ transferOwnershipError(owner, n) = "ok"
               /\ ENABLED (transferOwnership(owner, n) /\ owner' = n)
        /\ \A c \in CooldownInputs :
               /\ setCooldownSecondsError(owner, c) = "ok"
               /\ ENABLED (setCooldownSeconds(owner, c) /\ cooldownSeconds' = c)

\* The contract is paused and, since the deployment, a provider was added,
\* the cooldown was set and the ownership moved.
C33_Witness ==
    /\ paused
    /\ owner # Deployer
    /\ \E p \in Addr : isProvider[p]
    /\ cooldownSeconds > 0

\* C34: submitEncryptedData reports the first failing gate in the order
\* provider membership (NotProvider), pause (Paused), cooldown
\* (CooldownActive when now < lastSubmissionTime + cooldownSeconds),
\* initialized ciphertexts (NotInitialized), open current batch
\* (BatchClosedOrInvalid); requestBatchAnalysis reports NotOwner before Paused
\* before CooldownActive (when now < lastDecryptionRequestTime +
\* cooldownSeconds) before InvalidBatchId.
C34_GateOrder ==
    /\ \A s \in Addr, rec \in RecordInputs :
           submitEncryptedDataError(s, rec) =
               (IF ~isProvider[s] THEN "NotProvider"
                ELSE IF paused THEN "Paused"
                ELSE IF now < lastSubmissionTime[s] + cooldownSeconds THEN "CooldownActive"
                ELSE IF ~WellFormed(rec) THEN "NotInitialized"
                ELSE IF batches[currentBatchId].closed THEN "BatchClosedOrInvalid"
                ELSE "ok")
    /\ \A s \in Addr, b \in BatchIdInputs :
           requestBatchAnalysisError(s, b) =
               (IF s # owner THEN "NotOwner"
                ELSE IF paused THEN "Paused"
                ELSE IF now < lastDecryptionRequestTime[s] + cooldownSeconds
                     THEN "CooldownActive"
                ELSE IF NotAnalysable(b) THEN "InvalidBatchId"
                ELSE "ok")

====
